---- MODULE Spec2Model ----
(***************************************************************************)
(* sleepd: the suspend/resume coordination engine.                         *)
(*                                                                         *)
(* The Luna handlers and the four broadcast functions are translated from  *)
(* src/src/pwrevents/suspend_ipc.c.  The client registry (client.c), the   *)
(* activity tracker (activity.c), the wait object (wait.c) and the suspend *)
(* state machine (suspend.c) are not part of the sources at hand; they are *)
(* modelled from the specification (spec.md, sections 3 to 5).             *)
(***************************************************************************)
EXTENDS Integers, Sequences, FiniteSets, TLC

(* ------------------------------ bounds -------------------------------- *)

\* cap of a client's nackCount (the counter is unbounded in the program)
MaxNack == 1
\* cap of the clock
MaxTime == 2

ClientIds   == {"c1", "c2"}
ClientNames == {"n1", "n2"}
ActivityIds == {"a1"}
Phases      == {"prepareSuspend", "suspendRequest"}

(* --------------------------- JSON payloads ----------------------------- *)

\* json values carry their type: get_json_string and friends check it
JStr(v)  == [t |-> "string", s |-> v, b |-> FALSE, n |-> 0]
JBool(v) == [t |-> "boolean", s |-> "", b |-> v, n |-> 0]
JInt(v)  == [t |-> "int", s |-> "", b |-> FALSE, n |-> v]

NULL == [null |-> TRUE]

\* a payload is its text: either it parses to an object or it does not
Unparseable == [parses |-> FALSE, object |-> NULL]
Payload(obj) == [parses |-> TRUE, object |-> obj]

json_tokener_parse(payload) == IF payload.parses THEN payload.object ELSE NULL

get_json_string(object, key) ==
    key \in DOMAIN object /\ object[key].t = "string"

get_json_boolean(object, key) ==
    key \in DOMAIN object /\ object[key].t = "boolean"

get_json_int(object, key) ==
    key \in DOMAIN object /\ object[key].t = "int"

\* an object that has none of the fields any handler asks for
NoFields == [other |-> JInt(0)]

\* The payloads drawn for each request: one that does not parse, one with no
\* field, one with a field missing, one with an ill-typed field, and the
\* well-formed ones.
IdentifyPayloads(names) ==
    {Unparseable, Payload(NoFields),
     Payload([clientName |-> JStr("n1")]),
     Payload([clientName |-> JInt(1), subscribe |-> JBool(TRUE)]),
     Payload([clientName |-> JStr("n1"), subscribe |-> JBool(FALSE)])}
    \cup {Payload([clientName |-> JStr(n), subscribe |-> JBool(TRUE)]) :
            n \in names}

CancelByNamePayloads ==
    {Unparseable, Payload(NoFields), Payload([clientName |-> JInt(1)])}
    \cup {Payload([clientName |-> JStr(n)]) : n \in ClientNames}

RegisterPayloads(ids) ==
    {Unparseable, Payload(NoFields),
     Payload([clientId |-> JStr("c1")]),
     Payload([clientId |-> JInt(1), register |-> JBool(TRUE)])}
    \cup {Payload([clientId |-> JStr(c), register |-> JBool(b)]) :
            c \in ids, b \in BOOLEAN}

AckPayloads(ids) ==
    {Unparseable, Payload(NoFields),
     Payload([clientId |-> JStr("c1")]),
     Payload([clientId |-> JStr("c1"), ack |-> JInt(1)])}
    \cup {Payload([clientId |-> JStr(c), ack |-> JBool(b)]) :
            c \in ids, b \in BOOLEAN}

ActivityStartPayloads ==
    {Unparseable, Payload(NoFields),
     Payload([id |-> JStr("a1")]),
     Payload([id |-> JStr("a1"), duration_ms |-> JStr("1")])}
    \cup {Payload([id |-> JStr(a), duration_ms |-> JInt(d)]) :
            a \in ActivityIds, d \in {-1, 0, 1, 2}}

ActivityEndPayloads ==
    {Unparseable, Payload(NoFields), Payload([id |-> JInt(1)])}
    \cup {Payload([id |-> JStr(a)]) : a \in ActivityIds \cup {"a9"}}

\* what the bus does with the two calls identify makes on it:
\* LSSubscriptionAdd fails, LSMessageReply fails, or both succeed
Transports == {"ok", "noSubscription", "noReply"}

(* ------------------------------ state ---------------------------------- *)

VARIABLES
    clients,            \* the client registry: a set of client records
    activities,         \* the activity tracker: a set of [activityId, expiry]
    frozen,             \* the activity tracker refuses new activities
    now,                \* the clock
    state,              \* the state of the suspend state machine
    step,               \* where the state machine is within a voting phase
    forced,             \* the running cycle was started by forceSuspend
    idleCheckScheduled, \* the idle-check timer is armed
    round,              \* per phase: expectedVoters, responded, outcome
    signaled,           \* per phase: the latch of the phase's wait object
    broadcasts,         \* the signals sent in the current cycle, in order
    boot                \* main(): where it is, what the bus answers, what ran

vars == <<clients, activities, frozen, now, state, step, forced,
          idleCheckScheduled, round, signaled, broadcasts, boot>>

NoRound == [expectedVoters |-> {}, responded |-> {}, outcome |-> "none"]

\* what the calls main() makes at startup may answer: the two LSRegister,
\* the two LSGmainAttach, LSRegisterServerStatusEx and nyx_device_open
BusAnswers ==
    [regWebos : BOOLEAN, attachWebos : BOOLEAN, regPalm : BOOLEAN,
     attachPalm : BOOLEAN, serverStatus : BOOLEAN, nyxOpen : BOOLEAN]

\* main() before its first call, with the answers env ahead of it
Booting(env) ==
    [pc |-> "LSRegister_webos", env |-> env, retVal |-> FALSE,
     theOneInit |-> FALSE, mainLoopRun |-> FALSE, exit |-> "none"]

\* main() in g_main_loop_run after a startup in which every call succeeded
Booted ==
    [pc |-> "g_main_loop_run", env |-> [regWebos |-> TRUE, attachWebos |-> TRUE,
        regPalm |-> TRUE, attachPalm |-> TRUE, serverStatus |-> TRUE,
        nyxOpen |-> TRUE],
     retVal |-> TRUE, theOneInit |-> TRUE, mainLoopRun |-> TRUE,
     exit |-> "none"]

\* the daemon as construction leaves it, apart from boot
InitDaemon ==
    /\ clients = {}
    /\ activities = {}
    /\ frozen = FALSE
    /\ now = 0
    /\ state = "Idle"
    /\ step = "none"
    /\ forced = FALSE
    /\ idleCheckScheduled = TRUE
    /\ round = [p \in Phases |-> NoRound]
    /\ signaled = [p \in Phases |-> FALSE]
    /\ broadcasts = <<>>

\* the daemon up and serving
Init == InitDaemon /\ boot = Booted

(* --------------------------- client registry --------------------------- *)

NewClient(clientId) ==
    [clientId |-> clientId, clientName |-> "",
     wantsSuspendRequest |-> FALSE, wantsPrepareSuspend |-> FALSE,
     nackCount |-> 0]

Registered(clientId) == \E r \in clients : r.clientId = clientId

PwrEventClientLookup(clientId) ==
    IF Registered(clientId)
    THEN CHOOSE r \in clients : r.clientId = clientId
    ELSE NULL

\* idempotent insert: the registry after Register(clientId)
PwrEventClientRegister(clientId) ==
    IF Registered(clientId) THEN clients
    ELSE clients \cup {NewClient(clientId)}

\* the registry with the record info written over by rec (info is updated
\* in place; other records are left alone)
ClientUpdate(reg, info, rec) == (reg \ {info}) \cup {rec}

\* the in-flight rounds no longer expect the clients of gone
RoundsWithout(gone) ==
    [p \in Phases |->
        IF round[p].outcome = "pending"
        THEN [round[p] EXCEPT !.expectedVoters = @ \ gone]
        ELSE round[p]]

\* UnregisterById: the registry and the rounds afterwards
PwrEventClientUnregister(clientId) ==
    [clients |-> {r \in clients : r.clientId # clientId},
     round   |-> RoundsWithout({clientId})]

\* UnregisterByName: the registry and the rounds afterwards
PwrEventClientUnregisterByName(clientName) ==
    [clients |-> {r \in clients : r.clientName # clientName},
     round   |-> RoundsWithout({r.clientId : r \in
                                 {q \in clients : q.clientName = clientName}})]

\* SetSubscription for the suspend-request phase: ret is false for NotFound
PwrEventClientSuspendRequestRegister(clientId, reg) ==
    LET info == PwrEventClientLookup(clientId) IN
    IF info = NULL THEN [ret |-> FALSE, clients |-> clients]
    ELSE [ret |-> TRUE,
          clients |-> ClientUpdate(clients, info,
                        [info EXCEPT !.wantsSuspendRequest = reg])]

\* SetSubscription for the prepare-suspend phase: ret is false for NotFound
PwrEventClientPrepareSuspendRegister(clientId, reg) ==
    LET info == PwrEventClientLookup(clientId) IN
    IF info = NULL THEN [ret |-> FALSE, clients |-> clients]
    ELSE [ret |-> TRUE,
          clients |-> ClientUpdate(clients, info,
                        [info EXCEPT !.wantsPrepareSuspend = reg])]

\* the registry after one more NACK of the client
PwrEventClientNACKIncr(clientInfo) ==
    ClientUpdate(clients, clientInfo, [clientInfo EXCEPT !.nackCount = @ + 1])

\* Count(phase): the clients subscribed to the phase right now
Subscribers(p) ==
    {r.clientId : r \in {q \in clients :
        IF p = "suspendRequest" THEN q.wantsSuspendRequest
        ELSE q.wantsPrepareSuspend}}

(* ----------------------------- voting engine --------------------------- *)

\* a round in flight whose expected voters have all responded
RoundComplete(r) ==
    r.outcome = "pending" /\ r.expectedVoters \subseteq r.responded

\* RecordVote: the round of phase p with the vote of clientId recorded; the
\* outcome of a round that has ended is fixed, and with no round in flight
\* the vote is accepted and dropped
RecordVote(p, clientId) ==
    IF round[p].outcome # "pending" THEN round[p]
    ELSE [round[p] EXCEPT !.responded = @ \cup {clientId}]

\* the value PwrEventVoteSuspendRequest / PwrEventVotePrepareSuspend returns
VoteCompletes(p, clientId) == RoundComplete(RecordVote(p, clientId))

\* WaitObjectSignal: the latch of the wait object of phase p is set
WaitObjectSignal(p) == [signaled EXCEPT ![p] = TRUE]

(* --------------------------- activity tracker -------------------------- *)

\* Start: refused while frozen, else creates or refreshes the activity
PwrEventActivityStart(activity_id, duration_ms) ==
    IF frozen THEN [ret |-> FALSE, activities |-> activities]
    ELSE [ret |-> TRUE,
          activities |-> {a \in activities : a.activityId # activity_id}
                \cup {[activityId |-> activity_id, expiry |-> now + duration_ms]}]

PwrEventActivityStop(activity_id) ==
    {a \in activities : a.activityId # activity_id}

\* an activity tracker that never reports busy
IsBusy_Never == FALSE

IsBusy == \E a \in activities : a.expiry > now

\* the entries IsBusy leaves in the tracker (expired ones are evicted)
Unexpired == {a \in activities : a.expiry > now}

(* ------------------------------- handlers ------------------------------ *)
\* A handler is a function of the state and of its message: it gives the
\* replies sent to the caller, in order, and the new value of everything the
\* handler can write.  The actions further down apply them.

\* identify that adds a record for the caller without looking for the one
\* the registry may hold already
identifyCallback_NoLookup(clientId, payload, transport) ==
    LET object == json_tokener_parse(payload)
        subscriptionAdded == transport # "noSubscription"
        replySent == transport # "noReply"
    IN
    IF object = NULL
    THEN [replies |-> <<"BadJSON">>, clients |-> clients]
    ELSE IF \/ ~get_json_string(object, "clientName")
            \/ ~get_json_boolean(object, "subscribe")
            \/ ~object.subscribe.b
    THEN [replies |-> <<"InvalidParams">>, clients |-> clients]
    ELSE IF ~subscriptionAdded
    THEN [replies |-> <<"Unknown">>, clients |-> clients]
    ELSE [replies |-> IF replySent THEN <<"Identified">> ELSE <<"Unknown">>,
          clients |-> clients \cup
                {[NewClient(clientId) EXCEPT
                    !.clientName = object.clientName.s]}]

identifyCallback(clientId, payload, transport) ==
    LET object == json_tokener_parse(payload)
        subscriptionAdded == transport # "noSubscription"
        replySent == transport # "noReply"
    IN
    IF object = NULL
    THEN [replies |-> <<"BadJSON">>, clients |-> clients]
    ELSE IF \/ ~get_json_string(object, "clientName")
            \/ ~get_json_boolean(object, "subscribe")
            \/ ~object.subscribe.b
    THEN [replies |-> <<"InvalidParams">>, clients |-> clients]
    ELSE IF ~subscriptionAdded   \* LSSubscriptionAdd failed
    THEN [replies |-> <<"Unknown">>, clients |-> clients]
    ELSE LET reg  == PwrEventClientRegister(clientId)
             info == CHOOSE r \in reg : r.clientId = clientId
         IN  [replies |-> IF replySent THEN <<"Identified">>
                          ELSE <<"Unknown">>,   \* LSMessageReply failed
              clients |-> ClientUpdate(reg, info,
                            [info EXCEPT !.clientName = object.clientName.s,
                                         !.clientId = clientId])]

clientCancelByName(payload) ==
    LET object == json_tokener_parse(payload) IN
    IF object = NULL
    THEN [replies |-> <<>>, clients |-> clients, round |-> round]
    ELSE IF ~get_json_string(object, "clientName")
    THEN [replies |-> <<"InvalidParams">>, clients |-> clients, round |-> round]
    ELSE LET un == PwrEventClientUnregisterByName(object.clientName.s)
         IN  [replies |-> <<"Success">>, clients |-> un.clients,
              round |-> un.round]

\* the subscription-cancel callback: there is no message to reply to
clientCancel(clientId) ==
    LET un == PwrEventClientUnregister(clientId)
    IN  [replies |-> <<>>, clients |-> un.clients, round |-> un.round]

\* the two services of the daemon; both carry the same methods and signals
Services == {"com.palm.sleep", "com.webos.service.power"}

\* the service a client is connected to: c1 calls com.palm.sleep
\* (/com/palm/power), every other client com.webos.service.power (/suspend)
ServiceOf(clientId) ==
    IF clientId = "c1" THEN "com.palm.sleep" ELSE "com.webos.service.power"

\* SuspendIPCInit: the services whose handle has clientCancel as its
\* subscription-cancel function; retVal is the result of
\* LSSubscriptionSetCancelFunction, a failure is logged and nothing more
SuspendIPCInit(retVal) == IF retVal THEN {"com.palm.sleep"} ELSE {}

\* the connection of the client is dropped: the bus cancels the subscription
\* that identify added on the handle of the client's service, and calls the
\* cancel function of that handle, when it has one
SubscriptionCancelled(clientId) ==
    IF ServiceOf(clientId) \in SuspendIPCInit(TRUE)
    THEN clientCancel(clientId)
    ELSE [replies |-> <<>>, clients |-> clients, round |-> round]

suspendRequestRegister(payload) ==
    LET object == json_tokener_parse(payload) IN
    IF object = NULL
    THEN [replies |-> <<"BadJSON">>, clients |-> clients]
    ELSE IF \/ ~get_json_string(object, "clientId")
            \/ ~get_json_boolean(object, "register")
    THEN [replies |-> <<"InvalidParams">>, clients |-> clients]
    ELSE [replies |-> <<"Success">>,
          clients |-> PwrEventClientSuspendRequestRegister(
                          object.clientId.s, object.register.b).clients]

prepareSuspendRegister(payload) ==
    LET object == json_tokener_parse(payload) IN
    IF object = NULL
    THEN [replies |-> <<"BadJSON">>, clients |-> clients]
    ELSE IF \/ ~get_json_string(object, "clientId")
            \/ ~get_json_boolean(object, "register")
    THEN [replies |-> <<"InvalidParams">>, clients |-> clients]
    ELSE LET set == PwrEventClientPrepareSuspendRegister(
                        object.clientId.s, object.register.b)
         IN  IF ~set.ret
             THEN [replies |-> <<"InvalidParams">>, clients |-> set.clients]
             ELSE [replies |-> <<"Success">>, clients |-> set.clients]

\* ack handlers that signal the wait object only for a vote that is an ACK
VoteHandled_AckOnly(p, clientId, ack) ==
    LET clientInfo == PwrEventClientLookup(clientId) IN
    IF clientInfo = NULL
    THEN [replies |-> <<"ClientNotFound">>, clients |-> clients,
          round |-> round, signaled |-> signaled]
    ELSE [replies  |-> <<"Success">>,
          clients  |-> IF ack THEN clients
                       ELSE PwrEventClientNACKIncr(clientInfo),
          round    |-> [round EXCEPT ![p] = RecordVote(p, clientId)],
          signaled |-> IF ack /\ VoteCompletes(p, clientId)
                       THEN WaitObjectSignal(p) ELSE signaled]

\* ack handlers that record the vote before they look the client up
VoteHandled_VoteFirst(p, clientId, ack) ==
    LET clientInfo == PwrEventClientLookup(clientId) IN
    [replies  |-> IF clientInfo = NULL THEN <<"ClientNotFound">>
                  ELSE <<"Success">>,
     clients  |-> IF ack \/ clientInfo = NULL THEN clients
                  ELSE PwrEventClientNACKIncr(clientInfo),
     round    |-> [round EXCEPT ![p] = RecordVote(p, clientId)],
     signaled |-> IF VoteCompletes(p, clientId)
                  THEN WaitObjectSignal(p) ELSE signaled]

\* ack handlers that count the votes that arrived, not the clients that
\* voted: the repeated vote of a client stands for a vote still outstanding
VoteHandled_CountsVotes(p, clientId, ack) ==
    LET clientInfo == PwrEventClientLookup(clientId)
        repeated == /\ round[p].outcome = "pending"
                    /\ clientId \in round[p].responded
        votes == Cardinality(round[p].responded) + 1
    IN
    IF clientInfo = NULL
    THEN [replies |-> <<"ClientNotFound">>, clients |-> clients,
          round |-> round, signaled |-> signaled]
    ELSE [replies  |-> <<"Success">>,
          clients  |-> IF ack THEN clients
                       ELSE PwrEventClientNACKIncr(clientInfo),
          round    |-> [round EXCEPT ![p] = RecordVote(p, clientId)],
          signaled |-> IF \/ VoteCompletes(p, clientId)
                          \/ /\ repeated
                             /\ votes >= Cardinality(round[p].expectedVoters)
                       THEN WaitObjectSignal(p) ELSE signaled]

\* what both ack handlers do once clientId and ack are read; p is the phase
\* of the handler
VoteHandled(p, clientId, ack) ==
    LET clientInfo == PwrEventClientLookup(clientId) IN
    IF clientInfo = NULL
    THEN [replies |-> <<"ClientNotFound">>, clients |-> clients,
          round |-> round, signaled |-> signaled]
    ELSE [replies  |-> <<"Success">>,
          clients  |-> IF ack THEN clients
                       ELSE PwrEventClientNACKIncr(clientInfo),
          round    |-> [round EXCEPT ![p] = RecordVote(p, clientId)],
          signaled |-> IF VoteCompletes(p, clientId)
                       THEN WaitObjectSignal(p) ELSE signaled]

suspendRequestAck(payload) ==
    LET object == json_tokener_parse(payload) IN
    IF object = NULL
    THEN [replies |-> <<"BadJSON">>, clients |-> clients,
          round |-> round, signaled |-> signaled]
    ELSE IF \/ ~get_json_string(object, "clientId")
            \/ ~get_json_boolean(object, "ack")
    THEN [replies |-> <<"InvalidParams">>, clients |-> clients,
          round |-> round, signaled |-> signaled]
    ELSE VoteHandled("suspendRequest", object.clientId.s, object.ack.b)

prepareSuspendAck(payload) ==
    LET object == json_tokener_parse(payload) IN
    IF object = NULL
    THEN [replies |-> <<"BadJSON">>, clients |-> clients,
          round |-> round, signaled |-> signaled]
    ELSE IF \/ ~get_json_string(object, "clientId")
            \/ ~get_json_boolean(object, "ack")
    THEN [replies |-> <<"InvalidParams">>, clients |-> clients,
          round |-> round, signaled |-> signaled]
    ELSE VoteHandled("prepareSuspend", object.clientId.s, object.ack.b)

\* activityStart that leaves an activity alone when its id is live already
activityStartCallback_KeepsFirst(payload) ==
    LET object == json_tokener_parse(payload) IN
    IF \/ object = NULL
       \/ ~get_json_string(object, "id")
       \/ ~get_json_int(object, "duration_ms")
       \/ object.duration_ms.n <= 0
    THEN [replies |-> <<"BadJSON">>, activities |-> activities]
    ELSE IF \E a \in activities : a.activityId = object.id.s
    THEN [replies |-> IF frozen THEN <<"ActivitiesFrozen">>
                      ELSE <<"Success">>,
          activities |-> activities]
    ELSE LET started == PwrEventActivityStart(object.id.s,
                                              object.duration_ms.n)
         IN  [replies |-> IF started.ret THEN <<"Success">>
                          ELSE <<"ActivitiesFrozen">>,
              activities |-> started.activities]

\* activityStart that replies success whatever PwrEventActivityStart returns
activityStartCallback_IgnoresRet(payload) ==
    LET object == json_tokener_parse(payload) IN
    IF \/ object = NULL
       \/ ~get_json_string(object, "id")
       \/ ~get_json_int(object, "duration_ms")
       \/ object.duration_ms.n <= 0
    THEN [replies |-> <<"BadJSON">>, activities |-> activities]
    ELSE [replies |-> <<"Success">>,
          activities |-> PwrEventActivityStart(object.id.s,
                            object.duration_ms.n).activities]

\* activityStart that starts the activity before it looks at the duration
activityStartCallback_StartFirst(payload) ==
    LET object == json_tokener_parse(payload) IN
    IF \/ object = NULL
       \/ ~get_json_string(object, "id")
       \/ ~get_json_int(object, "duration_ms")
    THEN [replies |-> <<"BadJSON">>, activities |-> activities]
    ELSE LET started == PwrEventActivityStart(object.id.s,
                                              object.duration_ms.n)
         IN  IF object.duration_ms.n <= 0
             THEN [replies |-> <<"BadJSON">>,
                   activities |-> started.activities]
             ELSE [replies |-> IF started.ret THEN <<"Success">>
                               ELSE <<"ActivitiesFrozen">>,
                   activities |-> started.activities]

activityStartCallback(payload) ==
    LET object == json_tokener_parse(payload) IN
    IF \/ object = NULL
       \/ ~get_json_string(object, "id")
       \/ ~get_json_int(object, "duration_ms")
       \/ object.duration_ms.n <= 0
    THEN [replies |-> <<"BadJSON">>, activities |-> activities]
    ELSE LET started == PwrEventActivityStart(object.id.s,
                                              object.duration_ms.n)
         IN  [replies |-> IF started.ret THEN <<"Success">>
                          ELSE <<"ActivitiesFrozen">>,
              activities |-> started.activities]

\* activityEnd that replies without stopping the activity
activityEndCallback_NoStop(payload) ==
    LET object == json_tokener_parse(payload) IN
    IF object = NULL \/ ~get_json_string(object, "id")
    THEN [replies |-> <<"BadJSON">>, activities |-> activities]
    ELSE [replies |-> <<"Success">>, activities |-> activities]

activityEndCallback(payload) ==
    LET object == json_tokener_parse(payload) IN
    IF object = NULL \/ ~get_json_string(object, "id")
    THEN [replies |-> <<"BadJSON">>, activities |-> activities]
    ELSE [replies |-> <<"Success">>,
          activities |-> PwrEventActivityStop(object.id.s)]

\* TriggerSuspend(forced): taken up in Idle, where it starts a forced cycle
\* at RequestingSuspend; while an attempt is running the request is turned
\* down (one suspend attempt at a time)
TriggerSuspend ==
    IF state = "Idle"
    THEN [state |-> "RequestingSuspend", step |-> "begin", forced |-> TRUE,
          broadcasts |-> <<>>]
    ELSE [state |-> state, step |-> step, forced |-> forced,
          broadcasts |-> broadcasts]

\* forceSuspend that asks for an idle check instead of a forced suspend
forceSuspendCallback_IdleCheck ==
    [replies |-> <<"Success">>,
     machine |-> [state |-> state, step |-> step, forced |-> forced,
                  broadcasts |-> broadcasts]]

\* forceSuspend that opens the suspendRequest phase itself, whatever the
\* state machine is doing
forceSuspendCallback_Restart ==
    [replies |-> <<"Success">>,
     machine |-> [state |-> "RequestingSuspend", step |-> "begin",
                  forced |-> TRUE,
                  broadcasts |-> IF state = "Idle" THEN <<>> ELSE broadcasts]]

forceSuspendCallback ==
    [replies |-> <<"Success">>, machine |-> TriggerSuspend]

\* ScheduleIdleCheck arms the idle-check timer
TESTSuspendCallback ==
    [replies |-> <<"Success">>, idleCheckScheduled |-> TRUE]

(* ------------------------------ broadcasts ----------------------------- *)

\* Each Send function calls LSSignalSend on com.palm.sleep and then, only if
\* that succeeded, on com.webos.service.power; sent1 and sent2 are the
\* results of the two LSSignalSend calls.  The result says which signal went
\* out, with which payload, on which services, and what the function returns.

\* one call of LSSignalSend: the handle (by its service), the signal the uri
\* names (luna://service/category/signal), the payload, and the result
LSSignalSend(service, category, signal, payload, retVal) ==
    [service |-> service, category |-> category, signal |-> signal,
     payload |-> payload, retVal |-> retVal]

\* what a Send function did, from the calls of LSSignalSend it made in
\* order: retVal holds the result of the last call when the function returns
Sent(sends) ==
    [signal  |-> sends[1].signal,
     payload |-> sends[1].payload,
     palm    |-> \E i \in 1..Len(sends) :
                    sends[i].service = "com.palm.sleep" /\ sends[i].retVal,
     webos   |-> \E i \in 1..Len(sends) :
                    /\ sends[i].service = "com.webos.service.power"
                    /\ sends[i].retVal,
     ret     |-> sends[Len(sends)].retVal,
     sends   |-> sends]

SendSuspendRequest(sent1, sent2) ==
    LET first  == LSSignalSend("com.palm.sleep", "/com/palm/power",
                               "suspendRequest", "{}", sent1)
        second == LSSignalSend("com.webos.service.power", "/suspend",
                               "suspendRequest", "{}", sent2)
    IN  IF ~first.retVal THEN Sent(<<first>>)     \* goto exit
        ELSE Sent(<<first, second>>)

\* SendPrepareSuspend that sends the signal of SendSuspendRequest
SendPrepareSuspend_AsRequest(sent1, sent2) ==
    [signal |-> "suspendRequest", payload |-> "{}",
     palm |-> sent1, webos |-> sent1 /\ sent2, ret |-> sent1 /\ sent2]

SendPrepareSuspend(sent1, sent2) ==
    LET first  == LSSignalSend("com.palm.sleep", "/com/palm/power",
                               "prepareSuspend", "{}", sent1)
        second == LSSignalSend("com.webos.service.power", "/suspend",
                               "prepareSuspend", "{}", sent2)
    IN  IF ~first.retVal THEN Sent(<<first>>)     \* goto exit
        ELSE Sent(<<first, second>>)

\* SendResume that sends the signal of SendSuspended
SendResume_AsSuspended(resumetype, sent1, sent2) ==
    [signal |-> "suspended", payload |-> resumetype,
     palm |-> sent1, webos |-> sent1 /\ sent2, ret |-> sent1 /\ sent2]

\* the payload is {"resumetype": resumetype}, built once for both calls
SendResume(resumetype, sent1, sent2) ==
    LET payload == resumetype
        first  == LSSignalSend("com.palm.sleep", "/com/palm/power",
                               "resume", payload, sent1)
        second == LSSignalSend("com.webos.service.power", "/suspend",
                               "resume", payload, sent2)
    IN  IF ~first.retVal THEN Sent(<<first>>)     \* goto exit
        ELSE Sent(<<first, second>>)

\* SendSuspended that calls LSSignalSend on com.webos.service.power whatever
\* the first call returned
SendSuspended_BothAlways(sent1, sent2) ==
    LET first  == LSSignalSend("com.palm.sleep", "/com/palm/power",
                               "suspended", "{}", sent1)
        second == LSSignalSend("com.webos.service.power", "/suspend",
                               "suspended", "{}", sent2)
    IN  Sent(<<first, second>>)

SendSuspended(sent1, sent2) ==
    LET first  == LSSignalSend("com.palm.sleep", "/com/palm/power",
                               "suspended", "{}", sent1)
        second == LSSignalSend("com.webos.service.power", "/suspend",
                               "suspended", "{}", sent2)
    IN  IF ~first.retVal THEN Sent(<<first>>)     \* goto exit
        ELSE Sent(<<first, second>>)

\* the state machine called a Send function and b is what it did: the log
\* of the cycle holds the calls, in order
Broadcast(b) ==
    broadcasts' = Append(broadcasts,
                         [signal |-> b.signal, payload |-> b.payload])

(* ----------------------- actions: the Luna requests -------------------- *)

\* the model caps nackCount: a NACK of a client whose counter is at the cap
\* is not drawn
NackInBound(payload) ==
    LET object == json_tokener_parse(payload) IN
    (/\ object # NULL
     /\ get_json_string(object, "clientId")
     /\ get_json_boolean(object, "ack")
     /\ ~object.ack.b
     /\ Registered(object.clientId.s))
    => PwrEventClientLookup(object.clientId.s).nackCount < MaxNack

OnIdentify(clientId, payload, transport) ==
    /\ clients' = identifyCallback(clientId, payload, transport).clients
    /\ UNCHANGED <<activities, frozen, now, state, step, forced,
                   idleCheckScheduled, round, signaled, broadcasts>>
    /\ UNCHANGED boot

OnClientCancelByName(payload) ==
    /\ clients' = clientCancelByName(payload).clients
    /\ round' = clientCancelByName(payload).round
    /\ UNCHANGED <<activities, frozen, now, state, step, forced,
                   idleCheckScheduled, signaled, broadcasts>>
    /\ UNCHANGED boot

OnDisconnect(clientId) ==
    /\ clients' = SubscriptionCancelled(clientId).clients
    /\ round' = SubscriptionCancelled(clientId).round
    /\ UNCHANGED <<activities, frozen, now, state, step, forced,
                   idleCheckScheduled, signaled, broadcasts>>
    /\ UNCHANGED boot

OnSuspendRequestRegister(payload) ==
    /\ clients' = suspendRequestRegister(payload).clients
    /\ UNCHANGED <<activities, frozen, now, state, step, forced,
                   idleCheckScheduled, round, signaled, broadcasts>>
    /\ UNCHANGED boot

OnPrepareSuspendRegister(payload) ==
    /\ clients' = prepareSuspendRegister(payload).clients
    /\ UNCHANGED <<activities, frozen, now, state, step, forced,
                   idleCheckScheduled, round, signaled, broadcasts>>
    /\ UNCHANGED boot

OnSuspendRequestAck(payload) ==
    /\ NackInBound(payload)
    /\ clients' = suspendRequestAck(payload).clients
    /\ round' = suspendRequestAck(payload).round
    /\ signaled' = suspendRequestAck(payload).signaled
    /\ UNCHANGED <<activities, frozen, now, state, step, forced,
                   idleCheckScheduled, broadcasts>>
    /\ UNCHANGED boot

OnPrepareSuspendAck(payload) ==
    /\ NackInBound(payload)
    /\ clients' = prepareSuspendAck(payload).clients
    /\ round' = prepareSuspendAck(payload).round
    /\ signaled' = prepareSuspendAck(payload).signaled
    /\ UNCHANGED <<activities, frozen, now, state, step, forced,
                   idleCheckScheduled, broadcasts>>
    /\ UNCHANGED boot

OnActivityStart(payload) ==
    /\ activities' = activityStartCallback(payload).activities
    /\ UNCHANGED <<clients, frozen, now, state, step, forced,
                   idleCheckScheduled, round, signaled, broadcasts>>
    /\ UNCHANGED boot

OnActivityEnd(payload) ==
    /\ activities' = activityEndCallback(payload).activities
    /\ UNCHANGED <<clients, frozen, now, state, step, forced,
                   idleCheckScheduled, round, signaled, broadcasts>>
    /\ UNCHANGED boot

OnForceSuspend ==
    /\ state' = forceSuspendCallback.machine.state
    /\ step' = forceSuspendCallback.machine.step
    /\ forced' = forceSuspendCallback.machine.forced
    /\ broadcasts' = forceSuspendCallback.machine.broadcasts
    /\ UNCHANGED <<clients, activities, frozen, now, idleCheckScheduled,
                   round, signaled>>
    /\ UNCHANGED boot

OnTESTSuspend ==
    /\ idleCheckScheduled' = TESTSuspendCallback.idleCheckScheduled
    /\ UNCHANGED <<clients, activities, frozen, now, state, step, forced,
                   round, signaled, broadcasts>>
    /\ UNCHANGED boot

(* -------------------------- suspend state machine ---------------------- *)

\* Idle -> CheckingActivity: the idle-check timer fires
IdleCheckTimer ==
    /\ state = "Idle"
    /\ idleCheckScheduled
    /\ state' = "CheckingActivity"
    /\ idleCheckScheduled' = FALSE
    /\ UNCHANGED <<clients, activities, frozen, now, step, forced, round,
                   signaled, broadcasts>>
    /\ UNCHANGED boot

\* CheckingActivity -> Idle (busy, or the policy says no: the check is
\* rescheduled) or -> PreparingSuspend.  IsBusy evicts what has expired.
CheckActivity(canSuspendNow) ==
    /\ state = "CheckingActivity"
    /\ activities' = Unexpired
    /\ IF IsBusy \/ ~canSuspendNow
       THEN /\ state' = "Idle"
            /\ idleCheckScheduled' = TRUE
            /\ UNCHANGED <<step, forced, broadcasts>>
       ELSE /\ state' = "PreparingSuspend"
            /\ step' = "begin"
            /\ forced' = FALSE
            /\ broadcasts' = <<>>
            /\ UNCHANGED idleCheckScheduled
    /\ UNCHANGED <<clients, frozen, now, round, signaled>>
    /\ UNCHANGED boot

StateOf(p) ==
    IF p = "prepareSuspend" THEN "PreparingSuspend" ELSE "RequestingSuspend"

\* BeginRound that leaves the wait object as the last round left it
BeginRound_NoRearm(p, sent1, sent2) ==
    /\ state = StateOf(p)
    /\ step = "begin"
    /\ round' = [round EXCEPT ![p] =
                    [expectedVoters |-> Subscribers(p), responded |-> {},
                     outcome |-> "pending"]]
    /\ Broadcast(IF p = "prepareSuspend" THEN SendPrepareSuspend(sent1, sent2)
                 ELSE SendSuspendRequest(sent1, sent2))
    /\ step' = "await"
    /\ UNCHANGED <<clients, activities, frozen, now, state, forced,
                   idleCheckScheduled, signaled>>
    /\ UNCHANGED boot

\* BeginRound: snapshot of the subscribers, the wait object rearmed, the
\* phase's signal broadcast
BeginRound(p, sent1, sent2) ==
    /\ state = StateOf(p)
    /\ step = "begin"
    /\ round' = [round EXCEPT ![p] =
                    [expectedVoters |-> Subscribers(p), responded |-> {},
                     outcome |-> "pending"]]
    /\ signaled' = [signaled EXCEPT ![p] = FALSE]
    /\ Broadcast(IF p = "prepareSuspend" THEN SendPrepareSuspend(sent1, sent2)
                 ELSE SendSuspendRequest(sent1, sent2))
    /\ step' = "await"
    /\ UNCHANGED <<clients, activities, frozen, now, state, forced,
                   idleCheckScheduled>>
    /\ UNCHANGED boot

\* the round of phase p ends with the outcome, which is fixed from now on,
\* and the next state is entered
RoundEnds(p, outcome) ==
    /\ round' = [round EXCEPT ![p] = [NoRound EXCEPT !.outcome = outcome]]
    /\ IF p = "prepareSuspend"
       THEN state' = "RequestingSuspend" /\ step' = "begin"
       ELSE state' = "Suspending" /\ step' = "none"

\* AwaitCompletion is entered: a round that is complete already is not
\* waited for
AwaitCompletion(p) ==
    /\ state = StateOf(p)
    /\ step = "await"
    /\ IF RoundComplete(round[p])
       THEN RoundEnds(p, "completed")
       ELSE step' = "waiting" /\ UNCHANGED <<state, round>>
    /\ UNCHANGED <<clients, activities, frozen, now, forced,
                   idleCheckScheduled, signaled, broadcasts>>
    /\ UNCHANGED boot

\* Wait returns Signaled: the latch is consumed
WaitSignaled(p) ==
    /\ state = StateOf(p)
    /\ step = "waiting"
    /\ signaled[p]
    /\ signaled' = [signaled EXCEPT ![p] = FALSE]
    /\ RoundEnds(p, "completed")
    /\ UNCHANGED <<clients, activities, frozen, now, forced,
                   idleCheckScheduled, broadcasts>>
    /\ UNCHANGED boot

\* a wait that runs to its timeout without looking at the latch
WaitTimedOut_IgnoresLatch(p) ==
    /\ state = StateOf(p)
    /\ step = "waiting"
    /\ RoundEnds(p, "timedOut")
    /\ UNCHANGED <<clients, activities, frozen, now, forced,
                   idleCheckScheduled, signaled, broadcasts>>
    /\ UNCHANGED boot

\* a wait with no bound of its own: it returns only once nobody is expected
WaitTimedOut_Unbounded(p) ==
    /\ state = StateOf(p)
    /\ step = "waiting"
    /\ ~signaled[p]
    /\ round[p].expectedVoters = {}
    /\ RoundEnds(p, "timedOut")
    /\ UNCHANGED <<clients, activities, frozen, now, forced,
                   idleCheckScheduled, signaled, broadcasts>>
    /\ UNCHANGED boot

\* Wait returns TimedOut: the bound of the wait elapsed unsignaled
WaitTimedOut(p) ==
    /\ state = StateOf(p)
    /\ step = "waiting"
    /\ ~signaled[p]
    /\ RoundEnds(p, "timedOut")
    /\ UNCHANGED <<clients, activities, frozen, now, forced,
                   idleCheckScheduled, signaled, broadcasts>>
    /\ UNCHANGED boot

\* the rounds of an attempt are gone once the attempt is over
EndOfAttempt == round' = [p \in Phases |-> NoRound]

\* Suspending: the commit-sleep call.  On success the machine is Suspended
\* and says so; on failure it broadcasts resume (aborted) and is Idle again.
CommitSleep(committed, sent1, sent2) ==
    /\ state = "Suspending"
    /\ IF committed
       THEN /\ state' = "Suspended"
            /\ Broadcast(SendSuspended(sent1, sent2))
            /\ UNCHANGED round
       ELSE /\ state' = "Idle"
            /\ Broadcast(SendResume("aborted", sent1, sent2))
            /\ EndOfAttempt
    /\ UNCHANGED <<clients, activities, frozen, now, step, forced,
                   idleCheckScheduled, signaled>>
    /\ UNCHANGED boot

\* Suspended -> Resuming: the wake notification
Wake ==
    /\ state = "Suspended"
    /\ state' = "Resuming"
    /\ UNCHANGED <<clients, activities, frozen, now, step, forced,
                   idleCheckScheduled, round, signaled, broadcasts>>
    /\ UNCHANGED boot

\* Resuming -> Idle: resume is broadcast with the wake reason and the
\* idle-check timer is armed again
Resume(sent1, sent2) ==
    /\ state = "Resuming"
    /\ Broadcast(SendResume("wake", sent1, sent2))
    /\ state' = "Idle"
    /\ idleCheckScheduled' = TRUE
    /\ EndOfAttempt
    /\ UNCHANGED <<clients, activities, frozen, now, step, forced, signaled>>
    /\ UNCHANGED boot

(* ------------------------------ environment ---------------------------- *)

Tick ==
    /\ now < MaxTime
    /\ now' = now + 1
    /\ UNCHANGED <<clients, activities, frozen, state, step, forced,
                   idleCheckScheduled, round, signaled, broadcasts>>
    /\ UNCHANGED boot

Freeze ==
    /\ ~frozen
    /\ frozen' = TRUE
    /\ UNCHANGED <<clients, activities, now, state, step, forced,
                   idleCheckScheduled, round, signaled, broadcasts>>
    /\ UNCHANGED boot

Unfreeze ==
    /\ frozen
    /\ frozen' = FALSE
    /\ UNCHANGED <<clients, activities, now, state, step, forced,
                   idleCheckScheduled, round, signaled, broadcasts>>
    /\ UNCHANGED boot

(* ------------------------------- startup ------------------------------ *)
\* main(): one action per call it makes, in the order of the code.

\* everything but boot
daemon == <<clients, activities, frozen, now, state, step, forced,
            idleCheckScheduled, round, signaled, broadcasts>>

\* retVal = LSRegister("com.webos.service.power", ...); on failure goto error
LSRegister_webos ==
    /\ boot.pc = "LSRegister_webos"
    /\ boot' = [boot EXCEPT !.retVal = boot.env.regWebos,
                            !.pc = IF boot.env.regWebos
                                   THEN "LSGmainAttach_webos" ELSE "error"]
    /\ UNCHANGED daemon

\* retVal = LSGmainAttach(webos_sh, ...): retVal is not read before the
\* next call writes it
LSGmainAttach_webos ==
    /\ boot.pc = "LSGmainAttach_webos"
    /\ boot' = [boot EXCEPT !.retVal = boot.env.attachWebos,
                            !.pc = "LSRegister_palm"]
    /\ UNCHANGED daemon

\* retVal = LSRegister("com.palm.sleep", ...); on failure goto error
LSRegister_palm ==
    /\ boot.pc = "LSRegister_palm"
    /\ boot' = [boot EXCEPT !.retVal = boot.env.regPalm,
                            !.pc = IF boot.env.regPalm
                                   THEN "LSGmainAttach_palm" ELSE "error"]
    /\ UNCHANGED daemon

\* retVal = LSGmainAttach(lsh, ...): retVal is not read afterwards
LSGmainAttach_palm ==
    /\ boot.pc = "LSGmainAttach_palm"
    /\ boot' = [boot EXCEPT !.retVal = boot.env.attachPalm,
                            !.pc = "LSRegisterServerStatusEx"]
    /\ UNCHANGED daemon

\* if (LSRegisterServerStatusEx(...) == false) goto error
LSRegisterServerStatusEx ==
    /\ boot.pc = "LSRegisterServerStatusEx"
    /\ boot' = [boot EXCEPT !.pc = IF boot.env.serverStatus
                                   THEN "nyx_device_open" ELSE "error"]
    /\ UNCHANGED daemon

\* nyx_device_open: abort() unless it returns NYX_ERROR_NONE
nyx_device_open ==
    /\ boot.pc = "nyx_device_open"
    /\ boot' = IF boot.env.nyxOpen
               THEN [boot EXCEPT !.pc = "TheOneInit"]
               ELSE [boot EXCEPT !.pc = "exited", !.exit = "abort"]
    /\ UNCHANGED daemon

TheOneInit ==
    /\ boot.pc = "TheOneInit"
    /\ boot' = [boot EXCEPT !.theOneInit = TRUE, !.pc = "g_main_loop_run"]
    /\ UNCHANGED daemon

\* g_main_loop_run(mainloop) is entered
g_main_loop_run ==
    /\ boot.pc = "g_main_loop_run"
    /\ ~boot.mainLoopRun
    /\ boot' = [boot EXCEPT !.mainLoopRun = TRUE]
    /\ UNCHANGED daemon

\* SIGTERM or SIGINT: g_main_loop_quit, and g_main_loop_run returns
term_handler ==
    /\ boot.pc = "g_main_loop_run"
    /\ boot.mainLoopRun
    /\ boot' = [boot EXCEPT !.pc = "error"]
    /\ UNCHANGED daemon

\* error: g_main_loop_unref(mainloop); return 0;
main_error ==
    /\ boot.pc = "error"
    /\ boot' = [boot EXCEPT !.pc = "exited", !.exit = "return 0"]
    /\ UNCHANGED daemon

(* ---------------------------- specifications --------------------------- *)

\* the requests about clients, from the clients ids, with the payloads drawn
\* from the sets given for identify, clientCancelByName, the two registers and
\* the two acks
ClientRequestsOf(ids, identifies, cancels, registers, acks) ==
    \/ \E c \in ids, payload \in identifies,
          transport \in Transports : OnIdentify(c, payload, transport)
    \/ \E payload \in cancels : OnClientCancelByName(payload)
    \/ \E c \in ids : OnDisconnect(c)
    \/ \E payload \in registers : OnSuspendRequestRegister(payload)
    \/ \E payload \in registers : OnPrepareSuspendRegister(payload)
    \/ \E payload \in acks : OnSuspendRequestAck(payload)
    \/ \E payload \in acks : OnPrepareSuspendAck(payload)

\* the requests about clients, from the clients ids under the names, with
\* every payload that can be drawn
ClientRequests(ids, names) ==
    ClientRequestsOf(ids, IdentifyPayloads(names), CancelByNamePayloads,
                     RegisterPayloads(ids), AckPayloads(ids))

\* the payloads of a set that parse and hold the string and boolean fields
\* named: the ones a handler does not reject for their syntax
WellFormed(payloads, strings, booleans) ==
    {payload \in payloads :
        /\ payload.parses
        /\ \A key \in strings : get_json_string(payload.object, key)
        /\ \A key \in booleans : get_json_boolean(payload.object, key)}

ActivityRequests ==
    \/ \E payload \in ActivityStartPayloads : OnActivityStart(payload)
    \/ \E payload \in ActivityEndPayloads : OnActivityEnd(payload)

Machine ==
    \/ IdleCheckTimer
    \/ \E canSuspendNow \in BOOLEAN : CheckActivity(canSuspendNow)
    \/ \E p \in Phases, sent1, sent2 \in BOOLEAN : BeginRound(p, sent1, sent2)
    \/ \E p \in Phases : AwaitCompletion(p)
    \/ \E p \in Phases : WaitSignaled(p)
    \/ \E p \in Phases : WaitTimedOut(p)
    \/ \E committed, sent1, sent2 \in BOOLEAN :
            CommitSleep(committed, sent1, sent2)
    \/ Wake
    \/ \E sent1, sent2 \in BOOLEAN : Resume(sent1, sent2)

Environment == Tick \/ Freeze \/ Unfreeze

\* the whole daemon, with one client
Next ==
    \/ ClientRequests({"c1"}, {"n1"})
    \/ ActivityRequests
    \/ OnForceSuspend
    \/ OnTESTSuspend
    \/ Machine
    \/ Environment

Spec == Init /\ [][Next]_vars

\* the clients, the votes and the state machine: two clients, no
\* activities, and the requests that pass the syntax checks of their handler
\* (the others change nothing)
NextVote ==
    \/ ClientRequestsOf(ClientIds,
            WellFormed(IdentifyPayloads(ClientNames),
                       {"clientName"}, {"subscribe"}),
            WellFormed(CancelByNamePayloads, {"clientName"}, {}),
            WellFormed(RegisterPayloads(ClientIds), {"clientId"}, {"register"}),
            WellFormed(AckPayloads(ClientIds), {"clientId"}, {"ack"}))
    \/ OnForceSuspend
    \/ Machine

SpecVote == Init /\ [][NextVote]_vars

\* the clients, the votes and the state machine, with the state machine's
\* thread running: a phase that is open begins its round and enters the
\* wait, and the wait returns (signaled, or at its timeout)
NextFair ==
    \/ ClientRequests(ClientIds, {"n1"})
    \/ OnForceSuspend
    \/ Machine

Fairness ==
    \A p \in Phases :
        /\ WF_vars(\E sent1, sent2 \in BOOLEAN : BeginRound(p, sent1, sent2))
        /\ WF_vars(AwaitCompletion(p))
        /\ WF_vars(WaitSignaled(p))
        /\ WF_vars(WaitTimedOut(p))

FairSpec == Init /\ [][NextFair]_vars /\ Fairness

\* main(), from its first call to the end of the process, under every
\* combination of answers of the bus and of nyx
InitStart ==
    /\ InitDaemon
    /\ boot \in {Booting(env) : env \in BusAnswers}

NextStart ==
    \/ LSRegister_webos
    \/ LSGmainAttach_webos
    \/ LSRegister_palm
    \/ LSGmainAttach_palm
    \/ LSRegisterServerStatusEx
    \/ nyx_device_open
    \/ TheOneInit
    \/ g_main_loop_run
    \/ term_handler
    \/ main_error

SpecStart == InitStart /\ [][NextStart]_vars

(* -------------------------------- claims ------------------------------- *)

\* the replies of every request that can be drawn in the current state
RepliesOfRequests ==
    {identifyCallback(c, payload, transport).replies :
        c \in ClientIds, payload \in IdentifyPayloads(ClientNames),
        transport \in Transports}
    \cup {clientCancelByName(payload).replies :
            payload \in CancelByNamePayloads}
    \cup {suspendRequestRegister(payload).replies :
            payload \in RegisterPayloads(ClientIds)}
    \cup {prepareSuspendRegister(payload).replies :
            payload \in RegisterPayloads(ClientIds)}
    \cup {suspendRequestAck(payload).replies : payload \in AckPayloads(ClientIds)}
    \cup {prepareSuspendAck(payload).replies : payload \in AckPayloads(ClientIds)}
    \cup {activityStartCallback(payload).replies :
            payload \in ActivityStartPayloads}
    \cup {activityEndCallback(payload).replies : payload \in ActivityEndPayloads}
    \cup {forceSuspendCallback.replies}

\* C6: every inbound request yields exactly one reply on every path of its
\* handler, the path of a payload that cannot be parsed included.
\* (clientCancelByName leaves by "goto out" on such a payload and replies
\* nothing.)
C6_ExactlyOneReply == \A replies \in RepliesOfRequests : Len(replies) = 1

\* C7: the registry holds at most one entry per clientId; clientCancel and
\* clientCancelByName leave no record of the client(s) they unregister, and
\* a clientId that is not registered stays not-found until an identify of
\* that client registers it.
C7_AtMostOneEntry ==
    \A r1, r2 \in clients : r1.clientId = r2.clientId => r1 = r2

C7_UnregisteredNotFound ==
    /\ \A c \in ClientIds :
         \A r \in clientCancel(c).clients : r.clientId # c
    /\ \A n \in ClientNames :
         \A r \in clientCancelByName(Payload([clientName |-> JStr(n)])).clients :
            r.clientName # n

C7_NotFoundUntilIdentify ==
    \A c \in ClientIds :
        (~Registered(c) /\ (\E r \in clients' : r.clientId = c))
        => \E payload \in IdentifyPayloads(ClientNames) :
              /\ identifyCallback(c, payload, "ok").replies = <<"Identified">>
              /\ clients' = identifyCallback(c, payload, "ok").clients

C7_Registry ==
    /\ [](C7_AtMostOneEntry /\ C7_UnregisteredNotFound)
    /\ [][C7_NotFoundUntilIdentify]_vars

\* a client that voted in the round in flight and is unregistered since,
\* next to a client that is registered
C7_Witness ==
    /\ \E p \in Phases : "c1" \in round[p].responded
    /\ ~Registered("c1")
    /\ PwrEventClientLookup("c1") = NULL
    /\ Registered("c2")

\* the handler of the acks of phase p
AckOf(p, payload) ==
    IF p = "suspendRequest" THEN suspendRequestAck(payload)
    ELSE prepareSuspendAck(payload)

\* C2: a vote round completes exactly when every client of its
\* expectedVoters has voted, whatever the ack/nack value of the votes.  The
\* vote that makes responded cover expectedVoters signals the wait object of
\* its phase, and no other vote does; a wait object that is signaled during
\* a round means all expected voters have voted; the waiter of a signaled
\* round observes Completed, and a round that ends while an expected voter
\* has not voted ends as TimedOut.
C2_CoveringVoteSignals ==
    \A p \in Phases, payload \in AckPayloads(ClientIds) :
        LET r == AckOf(p, payload) IN
        /\ (/\ round[p].outcome = "pending"
            /\ ~(round[p].expectedVoters \subseteq round[p].responded)
            /\ r.round[p].expectedVoters \subseteq r.round[p].responded)
           => r.signaled[p]
        /\ r.signaled # signaled
           => /\ r.signaled = [signaled EXCEPT ![p] = TRUE]
              /\ r.round[p].outcome = "pending"
              /\ r.round[p].expectedVoters \subseteq r.round[p].responded

C2_SignaledMeansAllVoted ==
    \A p \in Phases :
        (round[p].outcome = "pending" /\ signaled[p])
        => round[p].expectedVoters \subseteq round[p].responded

C2_RoundEnds ==
    \A p \in Phases :
        (round[p].outcome = "pending" /\ round'[p].outcome # "pending")
        => /\ signaled[p] => round'[p].outcome = "completed"
           /\ ~(round[p].expectedVoters \subseteq round[p].responded)
                => round'[p].outcome = "timedOut"

C2_CompletesWhenAllVoted ==
    /\ [](C2_CoveringVoteSignals /\ C2_SignaledMeansAllVoted)
    /\ [][C2_RoundEnds]_vars

\* the state machine waits for the suspendRequest round of both clients, both
\* have voted, each vote a NACK, and the wait object is signaled
C2_Witness ==
    /\ state = "RequestingSuspend"
    /\ step = "waiting"
    /\ round["suspendRequest"].expectedVoters = ClientIds
    /\ round["suspendRequest"].responded = ClientIds
    /\ round["prepareSuspend"].outcome = "none"
    /\ \A r \in clients : r.nackCount = 1
    /\ signaled["suspendRequest"]

\* C4: unregistering a client that is in the expectedVoters of the round in
\* flight counts as its response; when it was the only voter outstanding the
\* round completes at the disconnect, not at the timeout: a round never ends
\* as TimedOut when none of its expected voters is outstanding.
\* (clientCancel and clientCancelByName unregister the client and do not
\* signal the wait object: the waiter stays blocked until the timeout.)
C4_CompletesAtDisconnect ==
    [][\A p \in Phases :
        (round[p].outcome = "pending" /\ round'[p].outcome = "timedOut")
        => ~(round[p].expectedVoters \subseteq round[p].responded)]_vars

\* a reply that rejects the request
Rejected(replies) == replies \in {<<"BadJSON">>, <<"InvalidParams">>}

\* C10: a request rejected as malformed or as having invalid parameters
\* leaves the registry, the subscription flags, the nack counters, the
\* activities, the rounds in flight and both wait objects unchanged, and
\* causes no broadcast and no transition of the state machine: what the
\* handler gives for everything it can write is what was there before.
C10_RejectedChangesNothing ==
    /\ \A c \in ClientIds, payload \in IdentifyPayloads(ClientNames),
          transport \in Transports :
         LET r == identifyCallback(c, payload, transport) IN
         Rejected(r.replies) => r.clients = clients
    /\ \A payload \in CancelByNamePayloads :
         LET r == clientCancelByName(payload) IN
         (Rejected(r.replies) \/ json_tokener_parse(payload) = NULL)
         => r.clients = clients /\ r.round = round
    /\ \A payload \in RegisterPayloads(ClientIds) :
         /\ Rejected(suspendRequestRegister(payload).replies)
            => suspendRequestRegister(payload).clients = clients
         /\ Rejected(prepareSuspendRegister(payload).replies)
            => prepareSuspendRegister(payload).clients = clients
    /\ \A p \in Phases, payload \in AckPayloads(ClientIds) :
         LET r == AckOf(p, payload) IN
         Rejected(r.replies)
         => r.clients = clients /\ r.round = round /\ r.signaled = signaled
    /\ \A payload \in ActivityStartPayloads :
         Rejected(activityStartCallback(payload).replies)
         => activityStartCallback(payload).activities = activities
    /\ \A payload \in ActivityEndPayloads :
         Rejected(activityEndCallback(payload).replies)
         => activityEndCallback(payload).activities = activities

\* a state with something of everything a rejected request must leave alone:
\* a registered client with a flag and a NACK, an activity, a round in
\* flight that waits for the client
C10_Witness ==
    /\ state = "RequestingSuspend"
    /\ step = "waiting"
    /\ round["suspendRequest"].expectedVoters = {"c1"}
    /\ round["suspendRequest"].responded = {}
    /\ activities # {}
    /\ \E r \in clients : r.nackCount > 0 /\ r.wantsSuspendRequest

\* the signals of the log of the cycle, in order
Signals == [i \in 1..Len(broadcasts) |-> broadcasts[i].signal]

\* what a cycle broadcasts before it comes to the commit: a forced cycle has
\* no prepare phase
UpToRequest ==
    IF forced THEN <<"suspendRequest">>
    ELSE <<"prepareSuspend", "suspendRequest">>

\* the last broadcast of the log is the resume of an aborted cycle
Aborted ==
    /\ broadcasts # <<>>
    /\ broadcasts[Len(broadcasts)] = [signal |-> "resume", payload |-> "aborted"]

Busy == \E a \in activities : a.expiry > now

\* C5: PreparingSuspend is entered only by the idle check of a cycle that is
\* not forced, made while no activity has its expiry in the future and with
\* the policy allowing suspend, and prepareSuspend is broadcast only then;
\* the idle check made while an unexpired activity exists goes back to Idle
\* with the idle check rescheduled and broadcasts nothing.
C5_IdleCheck ==
    /\ (state # "PreparingSuspend" /\ state' = "PreparingSuspend")
       => /\ state = "CheckingActivity"
          /\ ~Busy
          /\ CheckActivity(TRUE)
          /\ ~forced'
    /\ (state = "CheckingActivity" /\ Busy /\ state' # state)
       => /\ state' = "Idle"
          /\ idleCheckScheduled'
          /\ broadcasts' = broadcasts
    /\ (Len(broadcasts') > Len(broadcasts)
        /\ broadcasts'[Len(broadcasts')].signal = "prepareSuspend")
       => state = "PreparingSuspend" /\ ~forced /\ broadcasts = <<>>

C5_PrepareOnlyWhenNotBusy == [][C5_IdleCheck]_vars

\* an idle check went through after time has passed, and prepareSuspend is out
C5_Witness ==
    /\ state = "PreparingSuspend"
    /\ step = "await"
    /\ ~forced
    /\ now > 0
    /\ broadcasts = <<[signal |-> "prepareSuspend", payload |-> "{}"]>>

\* C8: forceSuspend received in Idle goes directly to RequestingSuspend,
\* with no activity check, also while an activity is unexpired; the first
\* broadcast of the forced cycle is suspendRequest and the cycle has no
\* prepareSuspend; the request is always answered with success.
C8_ForcedCycle ==
    /\ forceSuspendCallback.replies = <<"Success">>
    /\ state = "Idle"
       => /\ forceSuspendCallback.machine.state = "RequestingSuspend"
          /\ forceSuspendCallback.machine.step = "begin"
          /\ forceSuspendCallback.machine.forced
          /\ forceSuspendCallback.machine.broadcasts = <<>>
    /\ (forced /\ state \in {"RequestingSuspend", "Suspending", "Suspended",
                            "Resuming"})
       => /\ \A i \in 1..Len(broadcasts) :
                broadcasts[i].signal # "prepareSuspend"
          /\ broadcasts # <<>> => broadcasts[1].signal = "suspendRequest"
          /\ state # "RequestingSuspend" => broadcasts # <<>>

C8_ForcedStep ==
    (state = "Idle" /\ OnForceSuspend)
    => state' = "RequestingSuspend" /\ forced' /\ UNCHANGED activities

C8_ForceSuspendSkipsPrepare == []C8_ForcedCycle /\ [][C8_ForcedStep]_vars

\* a forced cycle has broadcast suspendRequest while an activity is unexpired
C8_Witness ==
    /\ state = "RequestingSuspend"
    /\ forced
    /\ Busy
    /\ broadcasts = <<[signal |-> "suspendRequest", payload |-> "{}"]>>

\* the number of broadcasts of the signal in the log
CountOf(log, signal) ==
    Cardinality({i \in 1..Len(log) : log[i].signal = signal})

\* C9: when the commit-sleep operation reports failure exactly one resume is
\* broadcast, with the aborted reason, the state machine is Idle again and
\* the cycle has no suspended broadcast; suspended is broadcast only by a
\* commit that succeeded.
C9_CommitStep ==
    /\ (\E sent1, sent2 \in BOOLEAN : CommitSleep(FALSE, sent1, sent2))
       => /\ state' = "Idle"
          /\ broadcasts' = Append(broadcasts,
                [signal |-> "resume", payload |-> "aborted"])
          /\ CountOf(broadcasts', "resume") = 1
          /\ CountOf(broadcasts', "suspended") = 0
    /\ CountOf(broadcasts', "suspended") > CountOf(broadcasts, "suspended")
       => /\ \E sent1, sent2 \in BOOLEAN : CommitSleep(TRUE, sent1, sent2)
          /\ state' = "Suspended"

C1_NoClientBlocksSuspend ==
    /\ \A p \in Phases :
        (state = StateOf(p))
            ~> (round[p].outcome \in {"completed", "timedOut"})
    /\ (state \in {"PreparingSuspend", "RequestingSuspend"})
            ~> (state = "Suspending")

\* the commit is reached by a cycle in which both rounds timed out with the
\* client expected in both and NACKing
C1_Witness ==
    /\ state = "Suspending"
    /\ ~forced
    /\ round["prepareSuspend"].outcome = "timedOut"
    /\ round["suspendRequest"].outcome = "timedOut"
    /\ \E r \in clients : r.nackCount > 0

\* the payload parses, and the field key of the type t is missing or ill-typed
Lacks(payload, key, t) ==
    /\ payload.parses
    /\ ~(key \in DOMAIN payload.object /\ payload.object[key].t = t)

\* the (replies, payload parses, payload is invalid) of every request that
\* can be drawn; invalid is: a required field is missing or ill-typed, or
\* the duration of an activityStart is not positive
RequestsAnswered ==
    {<<identifyCallback(c, payload, transport).replies, payload.parses,
       Lacks(payload, "clientName", "string")
         \/ Lacks(payload, "subscribe", "boolean")>> :
        c \in ClientIds, payload \in IdentifyPayloads(ClientNames),
        transport \in Transports}
    \cup {<<clientCancelByName(payload).replies, payload.parses,
            Lacks(payload, "clientName", "string")>> :
            payload \in CancelByNamePayloads}
    \cup {<<suspendRequestRegister(payload).replies, payload.parses,
            Lacks(payload, "clientId", "string")
              \/ Lacks(payload, "register", "boolean")>> :
            payload \in RegisterPayloads(ClientIds)}
    \cup {<<prepareSuspendRegister(payload).replies, payload.parses,
            Lacks(payload, "clientId", "string")
              \/ Lacks(payload, "register", "boolean")>> :
            payload \in RegisterPayloads(ClientIds)}
    \cup {<<AckOf(p, payload).replies, payload.parses,
            Lacks(payload, "clientId", "string")
              \/ Lacks(payload, "ack", "boolean")>> :
            p \in Phases, payload \in AckPayloads(ClientIds)}
    \cup {<<activityStartCallback(payload).replies, payload.parses,
            \/ Lacks(payload, "id", "string")
            \/ Lacks(payload, "duration_ms", "int")
            \/ payload.parses /\ payload.object.duration_ms.n <= 0>> :
            payload \in ActivityStartPayloads}
    \cup {<<activityEndCallback(payload).replies, payload.parses,
            Lacks(payload, "id", "string")>> :
            payload \in ActivityEndPayloads}

\* C11: a request whose payload parses but has a missing or ill-typed
\* required field, or an activityStart whose duration_ms is not positive, is
\* answered with the invalid-parameters error, and the bad-request error is
\* used only for a payload that does not parse; for every handler.
\* (activityStartCallback and activityEndCallback have the one label
\* malformed_json for all their rejections.)
C11_InvalidParamsError ==
    \A a \in RequestsAnswered :
        /\ a[3] => a[1] = <<"InvalidParams">>
        /\ a[1] = <<"BadJSON">> => ~a[2]

\* the well-formed acks of a client that is not in the registry
AcksOfUnknown ==
    {payload \in AckPayloads(ClientIds) :
        /\ ~Lacks(payload, "clientId", "string")
        /\ ~Lacks(payload, "ack", "boolean")
        /\ payload.parses
        /\ ~(\E r \in clients : r.clientId = payload.object.clientId.s)}

\* C12: a suspendRequestAck or prepareSuspendAck whose clientId is not in
\* the registry is answered with the not-found error and does nothing else:
\* no vote recorded, no nack counted, no wait object signaled, the round in
\* flight as it was.
C12_UnknownClientAck ==
    \A p \in Phases, payload \in AcksOfUnknown :
        AckOf(p, payload) =
            [replies |-> <<"ClientNotFound">>, clients |-> clients,
             round |-> round, signaled |-> signaled]

\* the state machine waits for the vote of c1 in the suspendRequest round
\* and c2, which may ack, is not in the registry
C12_Witness ==
    /\ state = "RequestingSuspend"
    /\ step = "waiting"
    /\ round["suspendRequest"].outcome = "pending"
    /\ round["suspendRequest"].expectedVoters = {"c1"}
    /\ round["suspendRequest"].responded = {}
    /\ ~Registered("c2")
    /\ AcksOfUnknown # {}

\* the well-formed register requests: what each handler answers and the
\* registry it leaves, next to whether the client is in the registry
RegistersAnswered ==
    {[phase |-> p, clientId |-> c, reg |-> b,
      known |-> \E r \in clients : r.clientId = c,
      result |-> IF p = "suspendRequest"
                 THEN suspendRequestRegister(
                        Payload([clientId |-> JStr(c), register |-> JBool(b)]))
                 ELSE prepareSuspendRegister(
                        Payload([clientId |-> JStr(c), register |-> JBool(b)]))] :
        p \in Phases, c \in ClientIds, b \in BOOLEAN}

\* the flag of the record r for the phase p
FlagOf(r, p) ==
    IF p = "suspendRequest" THEN r.wantsSuspendRequest
    ELSE r.wantsPrepareSuspend

\* C13: suspendRequestRegister and prepareSuspendRegister treat an unknown
\* client the same way: each replies with an error, never with success, and
\* changes no subscription; for a registered client each sets the flag of
\* its own phase to the given value and replies success.
\* (suspendRequestRegister drops the result of
\* PwrEventClientSuspendRequestRegister and replies success.)
C13_RegisterUnknownClient ==
    \A a \in RegistersAnswered :
        IF a.known
        THEN /\ a.result.replies = <<"Success">>
             /\ \E r \in clients :
                  /\ r.clientId = a.clientId
                  /\ a.result.clients =
                        (clients \ {r}) \cup
                        {IF a.phase = "suspendRequest"
                         THEN [r EXCEPT !.wantsSuspendRequest = a.reg]
                         ELSE [r EXCEPT !.wantsPrepareSuspend = a.reg]}
        ELSE /\ Len(a.result.replies) = 1
             /\ a.result.replies # <<"Success">>
             /\ a.result.clients = clients

\* what C13 says of the requests of registered clients and of
\* prepareSuspendRegister, which the code does
C13_Elsewhere ==
    \A a \in RegistersAnswered :
        (a.known \/ a.phase = "prepareSuspend")
        => IF a.known
           THEN /\ a.result.replies = <<"Success">>
                /\ \A r \in a.result.clients :
                     r.clientId = a.clientId => FlagOf(r, a.phase) = a.reg
           ELSE /\ a.result.replies = <<"InvalidParams">>
                /\ a.result.clients = clients

\* the activityStart payloads with an id and a positive duration
ValidStarts ==
    {payload \in ActivityStartPayloads :
        /\ ~Lacks(payload, "id", "string")
        /\ ~Lacks(payload, "duration_ms", "int")
        /\ payload.parses
        /\ payload.object.duration_ms.n > 0}

\* the activityEnd payloads with an id
ValidEnds ==
    {payload \in ActivityEndPayloads :
        payload.parses /\ ~Lacks(payload, "id", "string")}

\* C14: IsBusy is true exactly when some activity has its expiry in the
\* future: true right after an accepted activityStart(id, d) with d > 0,
\* false once every activity was ended by activityEnd or is past its
\* deadline; activityEnd of an absent id changes nothing and replies
\* success.
C14_BusyIffUnexpired ==
    /\ IsBusy <=> \E a \in activities : a.expiry > now
    /\ (\A a \in activities : a.expiry <= now) => ~IsBusy
    /\ \A payload \in ValidStarts :
         LET r == activityStartCallback(payload) IN
         r.replies = <<"Success">> => \E a \in r.activities : a.expiry > now
    /\ \A payload \in ValidEnds :
         LET r == activityEndCallback(payload) IN
         /\ r.replies = <<"Success">>
         /\ \A a \in r.activities : a.activityId # payload.object.id.s
         /\ (\A a \in activities : a.activityId = payload.object.id.s)
            => r.activities = {}
         /\ (\A a \in activities : a.activityId # payload.object.id.s)
            => r.activities = activities

\* an activity is past its deadline, unrefreshed, and the device is not busy
C14_Witness ==
    /\ activities # {}
    /\ \A a \in activities : a.expiry <= now
    /\ ~IsBusy

\* C15: starting an activity whose id is live refreshes it: afterwards the
\* tracker holds exactly one activity of that id, with the time of the
\* second start plus the second duration as its expiry, and the device is
\* busy until then; no two activities ever have the same id.
C15_OnePerId ==
    \A a1, a2 \in activities : a1.activityId = a2.activityId => a1 = a2

C15_Refreshed ==
    \A payload \in ValidStarts :
        LET r == activityStartCallback(payload) IN
        r.replies = <<"Success">>
        => /\ {a \in r.activities : a.activityId = payload.object.id.s}
                = {[activityId |-> payload.object.id.s,
                    expiry |-> now + payload.object.duration_ms.n]}
           /\ \A t \in now..(now + payload.object.duration_ms.n - 1) :
                \E a \in r.activities : a.expiry > t

C15_RestartRefreshes == C15_OnePerId /\ C15_Refreshed

\* a1 is live and runs out before now + 2: a start of a1 for 2 moves its
\* deadline
C15_Witness ==
    /\ \E a \in activities :
         a.activityId = "a1" /\ a.expiry > now /\ a.expiry < now + 2
    /\ ~frozen
    /\ activityStartCallback(Payload([id |-> JStr("a1"),
                                      duration_ms |-> JInt(2)])).activities
         = {[activityId |-> "a1", expiry |-> now + 2]}

\* C16: while the activity tracker is frozen every activityStart is
\* rejected: the reply is the failure "Activities Frozen", no activity is
\* created and none is refreshed; when the tracker is not frozen (after
\* Unfreeze) an activityStart with a positive duration is accepted.
C16_FrozenRejects ==
    /\ \A payload \in ActivityStartPayloads :
         frozen => /\ activityStartCallback(payload).replies # <<"Success">>
                   /\ activityStartCallback(payload).activities = activities
    /\ \A payload \in ValidStarts :
         activityStartCallback(payload).replies =
            IF frozen THEN <<"ActivitiesFrozen">> ELSE <<"Success">>

\* the tracker is frozen while an activity is live
C16_Witness ==
    /\ frozen
    /\ \E a \in activities : a.expiry > now

\* a round that has reached Completed or TimedOut
Ended(r) == r.outcome \in {"completed", "timedOut"}

\* C17: the suspendRequest round never begins, and suspendRequest is not
\* broadcast, while the prepareSuspend round of the cycle is pending: phase
\* 2 starts only after the round of phase 1 reached Completed or TimedOut,
\* and the commit is called only after the round of phase 2 did.
C17_PhaseState ==
    /\ round["prepareSuspend"].outcome = "pending"
       => /\ round["suspendRequest"].outcome # "pending"
          /\ \A i \in 1..Len(broadcasts) :
                broadcasts[i].signal # "suspendRequest"
    /\ (state = "RequestingSuspend" /\ ~forced)
       => Ended(round["prepareSuspend"])
    /\ (round["suspendRequest"].outcome = "pending" /\ ~forced)
       => Ended(round["prepareSuspend"])
    /\ state \in {"Suspending", "Suspended"}
       => Ended(round["suspendRequest"])

C17_PhaseStep ==
    /\ CountOf(broadcasts', "suspendRequest")
            > CountOf(broadcasts, "suspendRequest")
       => round["prepareSuspend"].outcome # "pending"
    /\ (\E committed, sent1, sent2 \in BOOLEAN :
            CommitSleep(committed, sent1, sent2))
       => Ended(round["suspendRequest"])

C18_RequestsDuringRound ==
    /\ \A p \in Phases : CountOf(broadcasts, p) <= 1
    /\ state # "Idle"
       => /\ forceSuspendCallback.machine =
                [state |-> state, step |-> step, forced |-> forced,
                 broadcasts |-> broadcasts]
          /\ ~ENABLED IdleCheckTimer
    /\ \A p \in Phases :
         round[p].outcome = "pending"
         => /\ state = StateOf(p)
            /\ step \in {"await", "waiting"}
            /\ ~ENABLED (\E sent1, sent2 \in BOOLEAN :
                            BeginRound(p, sent1, sent2))

C18_RoundStep ==
    \A p \in Phases :
        (round[p].outcome = "pending" /\ round'[p] # round[p])
        => \/ /\ round'[p].outcome = "pending"
              /\ round'[p].expectedVoters \subseteq round[p].expectedVoters
              /\ round[p].responded \subseteq round'[p].responded
              /\ broadcasts' = broadcasts
           \/ /\ Ended(round'[p])
              /\ broadcasts' = broadcasts

C19_LatchState ==
    /\ \A p \in Phases :
         (round[p].outcome = "pending" /\ signaled[p])
         => /\ ~ENABLED WaitTimedOut(p)
            /\ step = "waiting" => ENABLED WaitSignaled(p)
    /\ \A p \in Phases, c \in ClientIds :
         LET payload == Payload([clientId |-> JStr(c), ack |-> JBool(TRUE)])
         IN  IF p = "suspendRequest"
             THEN ENABLED OnSuspendRequestAck(payload)
             ELSE ENABLED OnPrepareSuspendAck(payload)

C19_LatchStep ==
    \A p \in Phases :
        (round[p].outcome = "pending" /\ signaled[p])
        => /\ round'[p].outcome \in {"pending", "completed"}
           /\ round'[p].outcome = "pending" => signaled'[p]

C19_NoLostWakeup == []C19_LatchState /\ [][C19_LatchStep]_vars

\* the completing vote signaled the wait object after the broadcast and
\* before the state machine began to wait
C19_Witness ==
    /\ state = "RequestingSuspend"
    /\ step = "await"
    /\ round["suspendRequest"].outcome = "pending"
    /\ round["suspendRequest"].expectedVoters # {}
    /\ signaled["suspendRequest"]

\* C20: failure of bus registration at startup is fatal: when registering
\* com.webos.service.power or com.palm.sleep, attaching either handle to the
\* main loop, or registering the server-status callback fails, TheOneInit is
\* not called and the main loop is never run.
\* (main() stores the result of each LSGmainAttach in retVal and never
\* reads it.)
C20_StartupFailureFatal ==
    (\/ ~boot.env.regWebos
     \/ ~boot.env.attachWebos
     \/ ~boot.env.regPalm
     \/ ~boot.env.attachPalm
     \/ ~boot.env.serverStatus)
    => /\ ~boot.theOneInit
       /\ ~boot.mainLoopRun
       /\ boot.pc \notin {"TheOneInit", "g_main_loop_run"}

\* what C20 says of the failures main() does test, which the code does:
\* after a failed LSRegister or LSRegisterServerStatusEx there is no
\* TheOneInit and no main loop, and the process ends by return 0
C20_RegisterFailure ==
    (\/ ~boot.env.regWebos
     \/ ~boot.env.regPalm
     \/ ~boot.env.serverStatus)
    => /\ ~boot.theOneInit
       /\ ~boot.mainLoopRun
       /\ boot.exit # "abort"
       /\ boot.pc \notin {"nyx_device_open", "TheOneInit", "g_main_loop_run"}

\* the well-formed acks of phase p of a registered client that is outside
\* the snapshot of the phase: no round of p is in flight, or the round in
\* flight does not expect the client
AcksOfOutsiders(p) ==
    {payload \in AckPayloads(ClientIds) :
        /\ payload.parses
        /\ ~Lacks(payload, "clientId", "string")
        /\ ~Lacks(payload, "ack", "boolean")
        /\ Registered(payload.object.clientId.s)
        /\ \/ round[p].outcome # "pending"
           \/ payload.object.clientId.s \notin round[p].expectedVoters}

\* C21: the set of expected voters of a round is fixed at its broadcast: a
\* client that identifies or subscribes to the phase after the broadcast
\* does not enlarge it, and a vote from a registered client outside the
\* snapshot (subscribed later, not subscribed to that phase, or voting while
\* no round of that phase is in flight) is answered with success but never
\* completes the round nor signals the wait object.
\* (The ack handlers signal the wait object whenever the vote call returns
\* true, and it returns whether the round is complete: the vote of an
\* outsider signals once nobody is outstanding in the round in flight.)
C21_OutsiderVoteInert ==
    \A p \in Phases : \A payload \in AcksOfOutsiders(p) :
        LET r == AckOf(p, payload) IN
        /\ r.replies = <<"Success">>
        /\ r.signaled = signaled
        /\ r.round[p].outcome = round[p].outcome
        /\ r.round[p].expectedVoters = round[p].expectedVoters

\* what C21 says of the snapshot, which holds: while a round is in flight
\* its expectedVoters never gains a client, whatever identifies, subscribes
\* or votes, and the vote of an outsider is answered with success
C21_SnapshotStep ==
    \A p \in Phases :
        (round[p].outcome = "pending" /\ round'[p].outcome = "pending")
        => round'[p].expectedVoters \subseteq round[p].expectedVoters

C21_SnapshotFixed ==
    /\ [](\A p \in Phases : \A payload \in AcksOfOutsiders(p) :
            LET r == AckOf(p, payload) IN
            /\ r.replies = <<"Success">>
            /\ r.round[p].expectedVoters = round[p].expectedVoters)
    /\ [][C21_SnapshotStep]_vars

\* a round in flight that expects c1 only, while c2 has identified and is
\* subscribed to the phase: c2 came after the broadcast
C21_LateSubscriber ==
    /\ round["suspendRequest"].outcome = "pending"
    /\ round["suspendRequest"].expectedVoters = {"c1"}
    /\ "c2" \in Subscribers("suspendRequest")

\* the well-formed acks of the registered clients
AcksOfRegistered ==
    {payload \in AckPayloads(ClientIds) :
        /\ payload.parses
        /\ ~Lacks(payload, "clientId", "string")
        /\ ~Lacks(payload, "ack", "boolean")
        /\ Registered(payload.object.clientId.s)}

StaleSignal(p) == signaled[p] /\ round[p].outcome # "pending"

\* C23: a signal raised for one round is never consumed by a later round.
\* The round that begins starts with its wait object unsignaled, whatever
\* the wait object held; from then on the wait object is signaled only
\* while every expected voter of the round in flight has responded; and a
\* round ends as Completed only when every expected voter of that round has
\* responded.
C23_RoundState ==
    \A p \in Phases :
        (state = StateOf(p) /\ step \in {"await", "waiting"} /\ signaled[p])
        => /\ round[p].outcome = "pending"
           /\ round[p].expectedVoters \subseteq round[p].responded

C23_RoundStep ==
    \A p \in Phases :
        /\ (round[p].outcome # "pending" /\ round'[p].outcome = "pending")
           => /\ ~signaled'[p]
              /\ round'[p].responded = {}
        /\ round'[p].outcome = "completed" /\ round[p].outcome # "completed"
           => /\ round[p].outcome = "pending"
              /\ round[p].expectedVoters \subseteq round[p].responded

GoneFrom(reg, rounds, clientId) ==
    /\ \A r \in reg : r.clientId # clientId
    /\ \A p \in Phases :
        rounds[p].outcome = "pending"
        => clientId \notin rounds[p].expectedVoters

\* C24: a client registered by identify is removed from the registry when
\* its connection is dropped, whichever of the two services it used: after
\* the transport-level disconnect of any identified client, a lookup of its
\* clientId returns not-found and it is no longer counted as a voter.
\* (SuspendIPCInit sets clientCancel as the cancel function of the handle of
\* com.palm.sleep only: the disconnect of a client of
\* com.webos.service.power calls nothing and its entry stays.)
C24_DisconnectUnregisters ==
    \A c \in ClientIds :
        Registered(c)
        => LET r == SubscriptionCancelled(c)
           IN  GoneFrom(r.clients, r.round, c)

\* what C24 says of the clients of com.palm.sleep, which holds: their
\* disconnect removes their entry and takes them out of the rounds in flight
C24_PalmDisconnect ==
    \A c \in ClientIds :
        (Registered(c) /\ ServiceOf(c) = "com.palm.sleep")
        => LET r == SubscriptionCancelled(c)
           IN  /\ GoneFrom(r.clients, r.round, c)
               /\ r.clients = clients \ {PwrEventClientLookup(c)}

\* c2, a client of com.webos.service.power, has identified and is expected
\* by the suspendRequest round in flight
C24_WebosVoter ==
    /\ Registered("c2")
    /\ round["suspendRequest"].outcome = "pending"
    /\ "c2" \in round["suspendRequest"].expectedVoters

\* the calls of the four Send functions, under every result of the two
\* LSSignalSend calls: the signal, the payload, the results drawn, and what
\* the function did
SendCalls ==
    UNION {
        {[signal |-> "prepareSuspend", payload |-> "{}", sent1 |-> s1,
          sent2 |-> s2, did |-> SendPrepareSuspend(s1, s2)],
         [signal |-> "suspendRequest", payload |-> "{}", sent1 |-> s1,
          sent2 |-> s2, did |-> SendSuspendRequest(s1, s2)],
         [signal |-> "suspended", payload |-> "{}", sent1 |-> s1,
          sent2 |-> s2, did |-> SendSuspended(s1, s2)],
         [signal |-> "resume", payload |-> "aborted", sent1 |-> s1,
          sent2 |-> s2, did |-> SendResume("aborted", s1, s2)],
         [signal |-> "resume", payload |-> "wake", sent1 |-> s1,
          sent2 |-> s2, did |-> SendResume("wake", s1, s2)]}
        : s1 \in BOOLEAN, s2 \in BOOLEAN}

\* the Send calls the state machine makes at its next transition
CallsAhead ==
    {c \in SendCalls :
        \/ state = "PreparingSuspend" /\ step = "begin"
            /\ c.signal = "prepareSuspend"
        \/ state = "RequestingSuspend" /\ step = "begin"
            /\ c.signal = "suspendRequest"
        \/ state = "Suspending"
            /\ (c.signal = "suspended" \/ c.payload = "aborted")
        \/ state = "Resuming" /\ c.payload = "wake"}

\* C25: each of the four broadcasts (prepareSuspend, suspendRequest,
\* suspended, resume) is sent on both services with the same payload, first
\* on com.palm.sleep and then on com.webos.service.power; the second send is
\* attempted only when the first succeeded, so a failed send on
\* com.palm.sleep means the clients of com.webos.service.power receive no
\* signal for that transition, and the function's result is the result of
\* the last send attempted.
C25_BothServices ==
    \A c \in CallsAhead :
        LET sends == c.did.sends IN
        /\ Len(sends) = IF c.sent1 THEN 2 ELSE 1
        /\ sends[1] = [service |-> "com.palm.sleep",
                       category |-> "/com/palm/power", signal |-> c.signal,
                       payload |-> c.payload, retVal |-> c.sent1]
        /\ c.sent1
           => sends[2] = [service |-> "com.webos.service.power",
                          category |-> "/suspend", signal |-> c.signal,
                          payload |-> c.payload, retVal |-> c.sent2]
        /\ ~c.sent1
           => /\ \A i \in 1..Len(sends) :
                    sends[i].service # "com.webos.service.power"
              /\ ~c.did.webos
        /\ c.did.ret = sends[Len(sends)].retVal
        /\ c.did.ret = (c.sent1 /\ c.sent2)
        /\ c.did.signal = c.signal /\ c.did.payload = c.payload

\* prepareSuspend has been broadcast and suspendRequest is about to be, c2,
\* a client of com.webos.service.power, is subscribed to it, and the send on
\* com.palm.sleep may fail
C25_Witness ==
    /\ state = "RequestingSuspend"
    /\ step = "begin"
    /\ broadcasts = <<[signal |-> "prepareSuspend", payload |-> "{}"]>>
    /\ "c2" \in Subscribers("suspendRequest")
    /\ ServiceOf("c2") = "com.webos.service.power"
    /\ \E c \in CallsAhead :
        c.signal = "suspendRequest" /\ ~c.sent1 /\ ~c.did.webos

====
